---------------------------- MODULE Spec2Model ----------------------------
(***************************************************************************)
(* State-synchronisation layer of arugio: the authoritative server tick    *)
(* (arugio_server/src/main.rs), the client tick (arugio_client/src/main.rs)*)
(* and the shared physics integrator (arugio_shared/src/lib.rs).           *)
(*                                                                         *)
(* Conventions                                                             *)
(*  - A Vec2 is a pair <<x, y>> of integers.  The value 1.0 of a velocity   *)
(*    component is VOne model units.  Time is measured in units of         *)
(*    1/DtDen second; positions are kept in units of 1/(VOne*DtDen), so    *)
(*    that the Euler step is exact integer arithmetic.                     *)
(*  - An entity is an index into the sequence of balls (balls are never    *)
(*    despawned by the code).                                              *)
(*  - Commands issued by a system are deferred: they are queued and        *)
(*    applied when the stage ends, so queries made during a stage see the  *)
(*    world as it was when the stage began.                                *)
(*  - Changed<T> is the ECS write flag: set when the component is added,   *)
(*    inserted or mutably dereferenced; cleared at the end of the frame.   *)
(***************************************************************************)
EXTENDS Integers, Sequences, FiniteSets, TLC

VARIABLES
    sPc,        \* server: position in the frame's schedule
    sDt,        \* server: time.delta_seconds() of the current frame
    sBalls,     \* server: the ball entities
    sCmds,      \* server: Commands queued during the current stage
    sConns,     \* server: net.connections (the handles)
    sEvents,    \* server: NetworkEvents not yet read by the event reader
    sGone,      \* server: peers that went away, and whether each was bound then
    sInbox,     \* server: component messages waiting in the channels
    sRecv,      \* server: component messages drained in the current frame
    sWelcomed,  \* server: the Welcome messages sent so far
    sOut,       \* server: component messages broadcast in the last POST_UPDATE
    sLast,      \* server: per entity, the component values last broadcast
    sCrash,     \* server: "none", or the message of the panic that ended it
    sTicks,     \* server: frames started
    sMsgs       \* server: component messages received so far

sVars == <<sPc, sDt, sBalls, sCmds, sConns, sEvents, sGone, sInbox, sRecv,
           sWelcomed, sOut, sLast, sCrash, sTicks, sMsgs>>

VARIABLES
    cPc,        \* client: position in the frame's schedule
    cDt,        \* client: time.delta_seconds() of the current frame
    cBalls,     \* client: the ball entities
    cCmds,      \* client: Commands queued during the current stage
    cConns,     \* client: net.connections (the handles)
    cEvents,    \* client: NetworkEvents not yet read by the event reader
    cWelcomes,  \* client: ServerMessages waiting in the reliable channel
    cInbox,     \* client: component messages waiting in the channels
    cOut,       \* client: component messages broadcast in the last POST_UPDATE
    cHello,     \* client: ClientMessage::Hello messages sent so far
    cCrash,     \* client: "none", or the message of the panic that ended it
    cTicks,     \* client: frames started
    cMsgs,      \* client: messages received so far
    cRecv       \* client: component messages drained in the current frame

cVars == <<cPc, cDt, cBalls, cCmds, cConns, cEvents, cWelcomes, cInbox, cOut,
           cHello, cCrash, cTicks, cMsgs, cRecv>>

vars == <<sVars, cVars>>

-----------------------------------------------------------------------------
(* Bounds of the model *)

MaxTicks == 5
MaxPeers == 2

(* Bounds of the model of the motion and broadcast claims *)
MotionTicks == 2
MotionPeers == 1
MotionMsgs == 2

(* Bounds of the model of the client *)
ClientTicks == 3
ClientMsgs == 3

(* Units *)
VOne == 2

(* Program constants *)
speed == 2
PosScale == 15
MinUnowned == 3

DtDen == 2 * speed

\* Identities carried by the messages a client receives, sampled.
ClientIdSet == {1, 2}

Zero == <<0, 0>>
NoVal == <<>>

\* Frame times, sampled: 1/speed s; and with 0 s (the first frame of a run).
StepSet == {DtDen \div speed}
DtSet == {0} \cup StepSet

\* Values of rand::random() * 2.0 - 1.0 on both axes, sampled: rand::random()
\* lies in [0, 1), so each axis lies in [-1, 1) and <<-1, -1>> is drawn when
\* both draws are 0.
CornerSet == {<<-VOne, -VOne>>}
WanderSet == {Zero} \cup CornerSet

\* Values of the randomized spawn position, sampled.
SpawnPosSet == {Zero}

\* Values of normal * power computed from a pointer position, sampled.
PointerSet == {<<VOne \div 2, 0>>}

\* Component values carried by inbound messages, sampled.
MsgValSet == {<<VOne, 0>>}
TwoValSet == MsgValSet \cup {<<0, VOne>>}

\* Identities carried by inbound messages: identities the server assigns early
\* in a run and one it never reaches within the bound on frames.
MsgIdSet == {1, 99}

-----------------------------------------------------------------------------
(* Physics integrator (arugio_shared) *)

\* velocity * (1.0 - delta * speed) + target_velocity * (delta * speed)
AxisVelocity(v, t, dt) == (v * (DtDen - dt * speed) + t * (dt * speed)) \div DtDen

advance_velocity(v, t, dt) ==
    <<AxisVelocity(v[1], t[1], dt), AxisVelocity(v[2], t[2], dt)>>

\* pos += vel * delta * 15.0
advance_position(p, v, dt) ==
    <<p[1] + v[1] * dt * PosScale, p[2] + v[2] * dt * PosScale>>

-----------------------------------------------------------------------------
(* Helpers over the ECS world *)

NewBall(id, pos) ==
    [id |-> id, pos |-> pos, vel |-> Zero, tv |-> Zero, handle |-> {},
     chPos |-> TRUE, chTv |-> TRUE]

\* Query<..., Without<NetworkHandle>>
Unowned(balls) == {e \in DOMAIN balls : balls[e].handle = {}}

LiveIds(balls) == {balls[e].id : e \in DOMAIN balls}

\* The tables `balls.iter().map(|(e, id)| (*id, e)).collect::<HashMap<_, _>>()`
\* can hold: every live identity mapped to one entity carrying it (which one,
\* when two carry it, depends on the query's iteration order).
RECURSIVE LookupsOver(_, _)
LookupsOver(balls, ids) ==
    IF ids = {} THEN {<<>>}
    ELSE LET id == CHOOSE x \in ids : TRUE
         IN  {f @@ (id :> e) : f \in LookupsOver(balls, ids \ {id}),
                               e \in {x \in DOMAIN balls : balls[x].id = id}}

Lookups(balls) == LookupsOver(balls, LiveIds(balls))

SetMax(S) == IF S = {} THEN 0 ELSE CHOOSE x \in S : \A y \in S : y <= x

\* The orders in which a HashMap of connections can be iterated.
IterOrders(S) ==
    {f \in [1 .. Cardinality(S) -> S] : \A i, j \in DOMAIN f : i # j => f[i] # f[j]}

RECURSIVE DrainFrom(_, _, _, _)
\* channels.recv::<(BallId, C)>() until empty, connection after connection
DrainFrom(inbox, ord, i, kind) ==
    IF i > Len(ord) THEN <<>>
    ELSE SelectSeq(inbox, LAMBDA m : m.peer = ord[i] /\ m.kind = kind)
         \o DrainFrom(inbox, ord, i + 1, kind)

\* One queued command applied to the world.
ApplyCmd(balls, c) ==
    CASE c.op = "insert_handle" ->
            [balls EXCEPT ![c.e].handle = {c.h}]
      [] c.op = "insert" /\ c.kind = "Position" ->
            [balls EXCEPT ![c.e].pos = c.val, ![c.e].chPos = TRUE]
      [] c.op = "insert" /\ c.kind = "TargetVelocity" ->
            [balls EXCEPT ![c.e].tv = c.val, ![c.e].chTv = TRUE]
      [] c.op = "spawn" ->
            Append(balls, NewBall(c.id, c.pos))

RECURSIVE ApplyCmds(_, _, _)
ApplyCmds(balls, cmds, i) ==
    IF i > Len(cmds) THEN balls
    ELSE ApplyCmds(ApplyCmd(balls, cmds[i]), cmds, i + 1)

NeverSent == [pos |-> NoVal, tv |-> NoVal]

RECURSIVE PadLast(_, _)
PadLast(last, n) == IF Len(last) >= n THEN last ELSE PadLast(Append(last, NeverSent), n)

-----------------------------------------------------------------------------
(* Server: environment *)

Running == sCrash = "none"

\* A peer connects: the transport records the connection and raises Connected.
PeerConnects(maxPeers) ==
    /\ Running /\ sPc = "idle"
    /\ \E h \in (0 .. (maxPeers - 1)) \ sConns :
          /\ \A g \in 0 .. (h - 1) : g \in sConns
          /\ sConns' = sConns \cup {h}
          /\ sEvents' = Append(sEvents, [type |-> "Connected", handle |-> h])
    /\ UNCHANGED <<cVars, sPc, sDt, sBalls, sCmds, sGone, sInbox, sRecv, sWelcomed,
                   sOut, sLast, sCrash, sTicks, sMsgs>>

\* A peer goes away: the transport raises Disconnected.
PeerDisconnects ==
    /\ Running /\ sPc = "idle"
    /\ \E h \in sConns \ {g.peer : g \in sGone} :
          /\ sGone' = sGone \cup
                {[peer |-> h, bound |-> \E e \in DOMAIN sBalls : sBalls[e].handle = {h}]}
          /\ sEvents' = Append(sEvents, [type |-> "Disconnected", handle |-> h])
    /\ UNCHANGED <<cVars, sPc, sDt, sBalls, sCmds, sConns, sInbox, sRecv, sWelcomed,
                   sOut, sLast, sCrash, sTicks, sMsgs>>

\* A component message from a peer arrives in its channel.
MessageArrives(maxMsgs, ids, vals) ==
    /\ Running /\ sPc = "idle" /\ sMsgs < maxMsgs
    /\ \E h \in sConns, k \in {"Position", "TargetVelocity"},
          id \in ids, v \in vals :
          sInbox' = Append(sInbox, [peer |-> h, kind |-> k, id |-> id, val |-> v])
    /\ sMsgs' = sMsgs + 1
    /\ UNCHANGED <<cVars, sPc, sDt, sBalls, sCmds, sConns, sEvents, sGone, sRecv,
                   sWelcomed, sOut, sLast, sCrash, sTicks>>

-----------------------------------------------------------------------------
(* Server: one frame of the schedule built in main *)

StartFrame(maxTicks, dts) ==
    /\ Running /\ sPc = "idle" /\ sTicks < maxTicks
    /\ \E dt \in dts : sDt' = dt
    /\ sPc' = "pre_pos"
    /\ sRecv' = <<>>
    /\ sTicks' = sTicks + 1
    /\ UNCHANGED <<cVars, sBalls, sCmds, sConns, sEvents, sGone, sInbox, sWelcomed,
                   sOut, sLast, sCrash, sMsgs>>

RECURSIVE ComponentCmdsOwnerOnly(_, _, _, _)
\* As ComponentCmds, but a message is applied only to the ball bound to the
\* peer that sent it.
ComponentCmdsOwnerOnly(msgs, look, known, i) ==
    IF i > Len(msgs) THEN <<>>
    ELSE (IF msgs[i].id \in known /\ sBalls[look[msgs[i].id]].handle = {msgs[i].peer}
          THEN <<[op |-> "insert", e |-> look[msgs[i].id],
                  kind |-> msgs[i].kind, val |-> msgs[i].val]>>
          ELSE <<>>)
         \o ComponentCmdsOwnerOnly(msgs, look, known, i + 1)

RECURSIVE ComponentCmdsSpawning(_, _, _, _)
\* As ComponentCmds, but an unknown identity spawns a ball (as the client does).
ComponentCmdsSpawning(msgs, look, known, i) ==
    IF i > Len(msgs) THEN <<>>
    ELSE (IF msgs[i].id \in known
          THEN <<[op |-> "insert", e |-> look[msgs[i].id],
                  kind |-> msgs[i].kind, val |-> msgs[i].val]>>
          ELSE <<[op |-> "spawn", id |-> msgs[i].id, pos |-> Zero]>>)
         \o ComponentCmdsSpawning(msgs, look, known, i + 1)

\* The commands read_component_channel_system::<C> queues for the drained messages.
RECURSIVE ComponentCmds(_, _, _, _)
ComponentCmds(msgs, look, known, i) ==
    IF i > Len(msgs) THEN <<>>
    ELSE (IF msgs[i].id \in known
          THEN <<[op |-> "insert", e |-> look[msgs[i].id],
                  kind |-> msgs[i].kind, val |-> msgs[i].val]>>
          ELSE <<>>)
         \o ComponentCmds(msgs, look, known, i + 1)

\* read_component_channel_system::<C>, PRE_UPDATE
read_component_channel_system(kind, here, next) ==
    /\ Running /\ sPc = here
    /\ \E ord \in IterOrders(sConns) :
       \E look \in Lookups(sBalls) :
          LET drained == DrainFrom(sInbox, ord, 1, kind) IN
             /\ sCmds' = sCmds \o ComponentCmds(drained, look, LiveIds(sBalls), 1)
             /\ sRecv' = sRecv \o drained
    /\ sInbox' = SelectSeq(sInbox, LAMBDA m : m.kind # kind)
    /\ sPc' = next
    /\ UNCHANGED <<cVars, sDt, sBalls, sConns, sEvents, sGone, sWelcomed, sOut, sLast,
                   sCrash, sTicks, sMsgs>>

ReadPositions == read_component_channel_system("Position", "pre_pos", "pre_tv")

ReadTargetVelocities ==
    read_component_channel_system("TargetVelocity", "pre_tv", "pre_end")

\* End of a stage: the queued commands are applied in the order they were issued.
ApplyStage(here, next) ==
    /\ Running /\ sPc = here
    /\ sBalls' = ApplyCmds(sBalls, sCmds, 1)
    /\ sLast' = PadLast(sLast, Len(sBalls'))
    /\ sCmds' = <<>>
    /\ sPc' = next
    /\ UNCHANGED <<cVars, sDt, sConns, sEvents, sGone, sInbox, sRecv, sWelcomed, sOut,
                   sCrash, sTicks, sMsgs>>

EndPreUpdate == ApplyStage("pre_end", "events")

\* The Connected events among those the reader has not yet seen, in order.
ConnectedOf(events) == SelectSeq(events, LAMBDA ev : ev.type = "Connected")

\* The first Connected event whose handle net.connections does not hold
\* (Len + 1 when there is none).
FirstUnknown(conn, conns) ==
    IF \A i \in DOMAIN conn : conn[i].handle \in conns
    THEN Len(conn) + 1
    ELSE CHOOSE i \in DOMAIN conn :
            /\ conn[i].handle \notin conns
            /\ \A j \in 1 .. (i - 1) : conn[j].handle \in conns

\* As BindCmds, but every Connected event binds every unowned ball (a loop
\* over the query in place of iter().next()).
BindCmdsAll(e, conn) ==
    LET un == CHOOSE q \in IterOrders(Unowned(sBalls)) : TRUE
    IN  [i \in 1 .. Len(conn) * Len(un) |->
            [op |-> "insert_handle", e |-> un[((i - 1) % Len(un)) + 1],
             h |-> conn[((i - 1) \div Len(un)) + 1].handle]]

\* cmd.insert_one(entity, NetworkHandle(*handle)) for each Connected event.
BindCmds(e, conn) ==
    [i \in 1 .. Len(conn) |->
        [op |-> "insert_handle", e |-> e, h |-> conn[i].handle]]

\* handle_network_events_system, UPDATE.  Every Connected event of the frame
\* takes unowned_balls.iter().next() from the same view of the world (the
\* NetworkHandle inserts are deferred); the query's iteration order is not
\* fixed by the code, so the ball is any unowned one.  `sent` counts the
\* Welcomes whose send succeeds before one fails.
handle_network_events_system ==
    /\ Running /\ sPc = "events"
    /\ LET conn == ConnectedOf(sEvents)
           known == FirstUnknown(conn, sConns) - 1
       IN
       IF conn = <<>> THEN
          /\ sPc' = "velocity"
          /\ UNCHANGED <<sCmds, sWelcomed, sCrash>>
       ELSE IF known = 0 THEN
          /\ sCrash' = "Got packet for non-existing connection"
          /\ sPc' = "crashed"
          /\ UNCHANGED <<sCmds, sWelcomed>>
       ELSE IF Unowned(sBalls) = {} THEN
          /\ sCrash' = "No unowned balls"
          /\ sPc' = "crashed"
          /\ UNCHANGED <<sCmds, sWelcomed>>
       ELSE
          \E e \in Unowned(sBalls), sent \in 0 .. known :
             /\ sWelcomed' = sWelcomed \cup
                   {[peer |-> conn[i].handle, id |-> sBalls[e].id] : i \in 1 .. sent}
             /\ IF sent < known
                THEN /\ sCrash' = "Could not send welcome"
                     /\ sPc' = "crashed"
                     /\ UNCHANGED sCmds
                ELSE IF known < Len(conn)
                THEN /\ sCrash' = "Got packet for non-existing connection"
                     /\ sPc' = "crashed"
                     /\ UNCHANGED sCmds
                ELSE /\ sCmds' = sCmds \o BindCmds(e, conn)
                     /\ sPc' = "velocity"
                     /\ UNCHANGED sCrash
    /\ sEvents' = <<>>
    /\ UNCHANGED <<cVars, sDt, sBalls, sConns, sGone, sInbox, sRecv, sOut, sLast,
                   sTicks, sMsgs>>

\* arugio_shared::update_velocity_system, UPDATE
update_velocity_system ==
    /\ Running /\ sPc = "velocity"
    /\ sBalls' = [e \in DOMAIN sBalls |->
                    [sBalls[e] EXCEPT !.vel = advance_velocity(@, sBalls[e].tv, sDt)]]
    /\ sPc' = "position"
    /\ UNCHANGED <<cVars, sDt, sCmds, sConns, sEvents, sGone, sInbox, sRecv, sWelcomed,
                   sOut, sLast, sCrash, sTicks, sMsgs>>

\* arugio_shared::update_position_system, UPDATE: `pos.0 += ...` writes through
\* the mutable borrow of every ball, which marks Position as changed.
update_position_system ==
    /\ Running /\ sPc = "position"
    /\ sBalls' = [e \in DOMAIN sBalls |->
                    [sBalls[e] EXCEPT !.pos = advance_position(@, sBalls[e].vel, sDt),
                                      !.chPos = TRUE]]
    /\ sPc' = "spawn"
    /\ UNCHANGED <<cVars, sDt, sCmds, sConns, sEvents, sGone, sInbox, sRecv, sWelcomed,
                   sOut, sLast, sCrash, sTicks, sMsgs>>

\* The highest unowned id itself, without the increment.
NextBallIdNoIncrement(balls) == SetMax({balls[e].id : e \in Unowned(balls)})

\* The identity spawn_ball_system gives a new ball: highest unowned id + 1.
NextBallId(balls) == SetMax({balls[e].id : e \in Unowned(balls)}) + 1

\* spawn_ball_system, UPDATE
spawn_ball_system ==
    /\ Running /\ sPc = "spawn"
    /\ IF Cardinality(Unowned(sBalls)) < MinUnowned
       THEN \E p \in SpawnPosSet :
               sCmds' = Append(sCmds, [op |-> "spawn", id |-> NextBallId(sBalls), pos |-> p])
       ELSE UNCHANGED sCmds
    /\ sPc' = "input"
    /\ UNCHANGED <<cVars, sDt, sBalls, sConns, sEvents, sGone, sInbox, sRecv, sWelcomed,
                   sOut, sLast, sCrash, sTicks, sMsgs>>

\* As unowned_ball_input_system without the Without<NetworkHandle> filter:
\* every ball wanders.
every_ball_input_system(wander) ==
    /\ Running /\ sPc = "input"
    /\ \E w \in [DOMAIN sBalls -> wander] :
          sBalls' = [e \in DOMAIN sBalls |->
                       [sBalls[e] EXCEPT !.tv = w[e], !.chTv = TRUE]]
    /\ sPc' = "update_end"
    /\ UNCHANGED <<cVars, sDt, sCmds, sConns, sEvents, sGone, sInbox, sRecv, sWelcomed,
                   sOut, sLast, sCrash, sTicks, sMsgs>>

\* unowned_ball_input_system, UPDATE
unowned_ball_input_system(wander) ==
    /\ Running /\ sPc = "input"
    /\ \E w \in [Unowned(sBalls) -> wander] :
          sBalls' = [e \in DOMAIN sBalls |->
                       IF e \in Unowned(sBalls)
                       THEN [sBalls[e] EXCEPT !.tv = w[e], !.chTv = TRUE]
                       ELSE sBalls[e]]
    /\ sPc' = "update_end"
    /\ UNCHANGED <<cVars, sDt, sCmds, sConns, sEvents, sGone, sInbox, sRecv, sWelcomed,
                   sOut, sLast, sCrash, sTicks, sMsgs>>

EndUpdate == ApplyStage("update_end", "post")

\* The messages broadcast_changes_system hands to net.broadcast_message.
Broadcasts(balls) ==
    {[kind |-> "TargetVelocity", id |-> balls[e].id, val |-> balls[e].tv] :
        e \in {x \in DOMAIN balls : balls[x].chTv}}
    \cup
    {[kind |-> "Position", id |-> balls[e].id, val |-> balls[e].pos] :
        e \in {x \in DOMAIN balls : balls[x].chPos}}

\* broadcast_changes_system, POST_UPDATE; the result of the send is discarded.
broadcast_changes_system ==
    /\ Running /\ sPc = "post"
    /\ sOut' = Broadcasts(sBalls)
    /\ sLast' = [e \in DOMAIN sBalls |->
                   [pos |-> IF sBalls[e].chPos THEN sBalls[e].pos ELSE sLast[e].pos,
                    tv |-> IF sBalls[e].chTv THEN sBalls[e].tv ELSE sLast[e].tv]]
    /\ sPc' = "frame_end"
    /\ UNCHANGED <<cVars, sDt, sBalls, sCmds, sConns, sEvents, sGone, sInbox, sRecv,
                   sWelcomed, sCrash, sTicks, sMsgs>>

\* End of the frame: the change flags are cleared.
EndFrame ==
    /\ Running /\ sPc = "frame_end"
    /\ sBalls' = [e \in DOMAIN sBalls |->
                    [sBalls[e] EXCEPT !.chPos = FALSE, !.chTv = FALSE]]
    /\ sPc' = "idle"
    /\ UNCHANGED <<cVars, sDt, sCmds, sConns, sEvents, sGone, sInbox, sRecv, sWelcomed,
                   sOut, sLast, sCrash, sTicks, sMsgs>>


-----------------------------------------------------------------------------
(* Client: helpers *)

\* BallBundle::new(ball_id), with or without the LocalPlayer marker
ClientBall(id, local) ==
    [id |-> id, pos |-> Zero, vel |-> Zero, tv |-> Zero, local |-> local,
     chPos |-> TRUE, chTv |-> TRUE]

\* Query<(&LocalPlayer, ...)>
LocalPlayers(balls) == {e \in DOMAIN balls : balls[e].local}

\* One queued client command applied to the world.
ClientApplyCmd(balls, c) ==
    CASE c.op = "insert" -> ApplyCmd(balls, c)
      [] c.op = "insert_local" -> [balls EXCEPT ![c.e].local = TRUE]
      [] c.op = "spawn_local" -> Append(balls, ClientBall(c.id, TRUE))
      [] c.op = "spawn_with" /\ c.kind = "Position" ->
            Append(balls, [ClientBall(c.id, FALSE) EXCEPT !.pos = c.val])
      [] c.op = "spawn_with" /\ c.kind = "TargetVelocity" ->
            Append(balls, [ClientBall(c.id, FALSE) EXCEPT !.tv = c.val])

RECURSIVE ClientApplyCmds(_, _, _)
ClientApplyCmds(balls, cmds, i) ==
    IF i > Len(cmds) THEN balls
    ELSE ClientApplyCmds(ClientApplyCmd(balls, cmds[i]), cmds, i + 1)

ClientRunning == cCrash = "none"

-----------------------------------------------------------------------------
(* Client: environment *)

\* The connection requested by client_setup_system is established.
ClientConnected ==
    /\ ClientRunning /\ cPc = "idle" /\ cConns = {}
    /\ cConns' = {0}
    /\ cEvents' = Append(cEvents, [type |-> "Connected", handle |-> 0])
    /\ UNCHANGED <<sVars, cPc, cDt, cBalls, cCmds, cWelcomes, cInbox, cOut, cHello,
                   cCrash, cTicks, cMsgs, cRecv>>

\* A ServerMessage::Welcome arrives on the reliable channel.
WelcomeArrives(maxMsgs) ==
    /\ ClientRunning /\ cPc = "idle" /\ cConns # {} /\ cMsgs < maxMsgs
    /\ \E id \in ClientIdSet : cWelcomes' = Append(cWelcomes, id)
    /\ cMsgs' = cMsgs + 1
    /\ UNCHANGED <<sVars, cPc, cDt, cBalls, cCmds, cConns, cEvents, cInbox, cOut,
                   cHello, cCrash, cTicks, cRecv>>

\* A component message arrives on its unreliable channel.
ClientMessageArrives(maxMsgs) ==
    /\ ClientRunning /\ cPc = "idle" /\ cConns # {} /\ cMsgs < maxMsgs
    /\ \E k \in {"Position", "TargetVelocity"}, id \in ClientIdSet, v \in MsgValSet :
          cInbox' = Append(cInbox, [kind |-> k, id |-> id, val |-> v])
    /\ cMsgs' = cMsgs + 1
    /\ UNCHANGED <<sVars, cPc, cDt, cBalls, cCmds, cConns, cEvents, cWelcomes, cOut,
                   cHello, cCrash, cTicks, cRecv>>

-----------------------------------------------------------------------------
(* Client: one frame of the schedule built in main *)

ClientStartFrame(maxTicks, dts) ==
    /\ ClientRunning /\ cPc = "idle" /\ cTicks < maxTicks
    /\ \E dt \in dts : cDt' = dt
    /\ cPc' = "pre_pos"
    /\ cTicks' = cTicks + 1
    /\ UNCHANGED <<sVars, cBalls, cCmds, cConns, cEvents, cWelcomes, cInbox, cOut,
                   cHello, cCrash, cMsgs, cRecv>>

\* The commands the client's read_component_channel_system::<C> queues.
RECURSIVE ClientComponentCmds(_, _, _, _)
ClientComponentCmds(msgs, look, balls, i) ==
    IF i > Len(msgs) THEN <<>>
    ELSE (IF msgs[i].id \in LiveIds(balls)
          THEN (IF balls[look[msgs[i].id]].local
                THEN <<>>
                ELSE <<[op |-> "insert", e |-> look[msgs[i].id],
                        kind |-> msgs[i].kind, val |-> msgs[i].val]>>)
          ELSE <<[op |-> "spawn_with", id |-> msgs[i].id,
                  kind |-> msgs[i].kind, val |-> msgs[i].val]>>)
         \o ClientComponentCmds(msgs, look, balls, i + 1)

\* read_component_channel_system::<C> of the client, PRE_UPDATE
client_read_component_channel_system(kind, here, next) ==
    /\ ClientRunning /\ cPc = here
    /\ \E look \in Lookups(cBalls) :
          /\ cCmds' = cCmds \o
                ClientComponentCmds(SelectSeq(cInbox, LAMBDA m : m.kind = kind),
                                    look, cBalls, 1)
    /\ cInbox' = SelectSeq(cInbox, LAMBDA m : m.kind # kind)
    /\ cRecv' = cRecv \o SelectSeq(cInbox, LAMBDA m : m.kind = kind)
    /\ cPc' = next
    /\ UNCHANGED <<sVars, cDt, cBalls, cConns, cEvents, cWelcomes, cOut, cHello,
                   cCrash, cTicks, cMsgs>>

ClientReadPositions ==
    client_read_component_channel_system("Position", "pre_pos", "pre_tv")

ClientReadTargetVelocities ==
    client_read_component_channel_system("TargetVelocity", "pre_tv", "pre_msg")

\* As WelcomeCmds, but a Welcome naming an identity the client does not know
\* yet is dropped (as the server drops component messages).
WelcomeCmdsKnownOnly(welcomes, look, balls) ==
    LET known == SelectSeq(welcomes, LAMBDA w : w \in LiveIds(balls))
    IN  [i \in DOMAIN known |-> [op |-> "insert_local", e |-> look[known[i]]]]

\* The command read_server_message_channel_system queues for each Welcome.
WelcomeCmds(welcomes, look, balls) ==
    [i \in DOMAIN welcomes |->
        IF welcomes[i] \in LiveIds(balls)
        THEN [op |-> "insert_local", e |-> look[welcomes[i]]]
        ELSE [op |-> "spawn_local", id |-> welcomes[i]]]

\* read_server_message_channel_system, PRE_UPDATE
read_server_message_channel_system ==
    /\ ClientRunning /\ cPc = "pre_msg"
    /\ \E look \in Lookups(cBalls) :
          /\ cCmds' = cCmds \o WelcomeCmds(cWelcomes, look, cBalls)
    /\ cWelcomes' = <<>>
    /\ cPc' = "pre_end"
    /\ UNCHANGED <<sVars, cDt, cBalls, cConns, cEvents, cInbox, cOut, cHello,
                   cCrash, cTicks, cMsgs, cRecv>>

\* End of a client stage: the queued commands are applied in order.
ClientApplyStage(here, next) ==
    /\ ClientRunning /\ cPc = here
    /\ cBalls' = ClientApplyCmds(cBalls, cCmds, 1)
    /\ cCmds' = <<>>
    /\ cPc' = next
    /\ UNCHANGED <<sVars, cDt, cConns, cEvents, cWelcomes, cInbox, cOut, cHello,
                   cCrash, cTicks, cMsgs, cRecv>>

ClientEndPreUpdate == ClientApplyStage("pre_end", "events")

\* handle_network_events_system of the client, UPDATE
client_handle_network_events_system ==
    /\ ClientRunning /\ cPc = "events"
    /\ LET conn == ConnectedOf(cEvents)
           known == FirstUnknown(conn, cConns) - 1
       IN
       IF conn = <<>> THEN
          /\ cPc' = "pointer"
          /\ UNCHANGED <<cHello, cCrash>>
       ELSE
          \E sent \in 0 .. known :
             /\ cHello' = cHello + sent
             /\ IF sent < known
                THEN cCrash' = "Could not send hello" /\ cPc' = "crashed"
                ELSE IF known < Len(conn)
                THEN /\ cCrash' = "Got packet for non-existing connection"
                     /\ cPc' = "crashed"
                ELSE cPc' = "pointer" /\ UNCHANGED cCrash
    /\ cEvents' = <<>>
    /\ UNCHANGED <<sVars, cDt, cBalls, cCmds, cConns, cWelcomes, cInbox, cOut,
                   cTicks, cMsgs, cRecv>>

\* The TargetVelocity inserts of handle_pointer_target_system for player e.
PointerCmds(e, tv, mouse_down, moved) ==
    (IF mouse_down
     THEN [i \in DOMAIN moved |->
              [op |-> "insert", e |-> e, kind |-> "TargetVelocity", val |-> moved[i]]]
     ELSE <<>>)
    \o
    (IF ~mouse_down /\ tv # Zero
     THEN <<[op |-> "insert", e |-> e, kind |-> "TargetVelocity", val |-> Zero]>>
     ELSE <<>>)

\* handle_pointer_target_system, UPDATE.  `moved` holds, for each CursorMoved
\* event of the frame, the vector normal * power computed from it.
handle_pointer_target_system(pointer) ==
    /\ ClientRunning /\ cPc = "pointer"
    /\ IF LocalPlayers(cBalls) = {}
       THEN UNCHANGED cCmds
       ELSE \E e \in LocalPlayers(cBalls), mouse_down \in BOOLEAN,
               moved \in {<<>>} \cup {<<p>> : p \in pointer} :
               cCmds' = cCmds \o PointerCmds(e, cBalls[e].tv, mouse_down, moved)
    /\ cPc' = "velocity"
    /\ UNCHANGED <<sVars, cDt, cBalls, cConns, cEvents, cWelcomes, cInbox, cOut,
                   cHello, cCrash, cTicks, cMsgs, cRecv>>

\* arugio_shared::update_velocity_system on the client, UPDATE
client_update_velocity_system ==
    /\ ClientRunning /\ cPc = "velocity"
    /\ cBalls' = [e \in DOMAIN cBalls |->
                    [cBalls[e] EXCEPT !.vel = advance_velocity(@, cBalls[e].tv, cDt)]]
    /\ cPc' = "position"
    /\ UNCHANGED <<sVars, cDt, cCmds, cConns, cEvents, cWelcomes, cInbox, cOut,
                   cHello, cCrash, cTicks, cMsgs, cRecv>>

\* arugio_shared::update_position_system on the client, UPDATE
client_update_position_system ==
    /\ ClientRunning /\ cPc = "position"
    /\ cBalls' = [e \in DOMAIN cBalls |->
                    [cBalls[e] EXCEPT !.pos = advance_position(@, cBalls[e].vel, cDt),
                                      !.chPos = TRUE]]
    /\ cPc' = "update_end"
    /\ UNCHANGED <<sVars, cDt, cCmds, cConns, cEvents, cWelcomes, cInbox, cOut,
                   cHello, cCrash, cTicks, cMsgs, cRecv>>

ClientEndUpdate == ClientApplyStage("update_end", "post")

\* The messages broadcast_local_changes_system hands to net.broadcast_message.
LocalBroadcasts(balls) ==
    {[kind |-> "TargetVelocity", id |-> balls[e].id, val |-> balls[e].tv] :
        e \in {x \in LocalPlayers(balls) : balls[x].chTv}}
    \cup
    {[kind |-> "Position", id |-> balls[e].id, val |-> balls[e].pos] :
        e \in {x \in LocalPlayers(balls) : balls[x].chPos}}

\* broadcast_local_changes_system, POST_UPDATE
broadcast_local_changes_system ==
    /\ ClientRunning /\ cPc = "post"
    /\ cOut' = LocalBroadcasts(cBalls)
    /\ cPc' = "frame_end"
    /\ UNCHANGED <<sVars, cDt, cBalls, cCmds, cConns, cEvents, cWelcomes, cInbox,
                   cHello, cCrash, cTicks, cMsgs, cRecv>>

\* End of the client frame: the change flags are cleared.
ClientEndFrame ==
    /\ ClientRunning /\ cPc = "frame_end"
    /\ cBalls' = [e \in DOMAIN cBalls |->
                    [cBalls[e] EXCEPT !.chPos = FALSE, !.chTv = FALSE]]
    /\ cRecv' = <<>>
    /\ cPc' = "idle"
    /\ UNCHANGED <<sVars, cDt, cCmds, cConns, cEvents, cWelcomes, cInbox, cOut,
                   cHello, cCrash, cTicks, cMsgs>>

-----------------------------------------------------------------------------
(* The specifications *)

ServerInit ==
    /\ sPc = "idle"
    /\ sDt = 0
    /\ sBalls = <<>>
    /\ sCmds = <<>>
    /\ sConns = {}
    /\ sEvents = <<>>
    /\ sGone = {}
    /\ sInbox = <<>>
    /\ sRecv = <<>>
    /\ sWelcomed = {}
    /\ sOut = {}
    /\ sLast = <<>>
    /\ sCrash = "none"
    /\ sTicks = 0
    /\ sMsgs = 0

\* A client that has not been started.
ClientInit ==
    /\ cPc = "idle"
    /\ cDt = 0
    /\ cBalls = <<>>
    /\ cCmds = <<>>
    /\ cConns = {}
    /\ cEvents = <<>>
    /\ cWelcomes = <<>>
    /\ cInbox = <<>>
    /\ cOut = {}
    /\ cHello = 0
    /\ cCrash = "none"
    /\ cTicks = 0
    /\ cMsgs = 0
    /\ cRecv = <<>>

Init == ServerInit /\ ClientInit

\* The frame between its first system and its last.
FrameSteps ==
    \/ ReadPositions
    \/ ReadTargetVelocities
    \/ EndPreUpdate
    \/ handle_network_events_system
    \/ update_velocity_system
    \/ update_position_system
    \/ spawn_ball_system
    \/ EndUpdate
    \/ broadcast_changes_system
    \/ EndFrame

\* Connections and ownership: one frame time, one wander sample, and no
\* inbound component messages (they write Position and TargetVelocity only).
Next ==
    \/ PeerConnects(MaxPeers)
    \/ PeerDisconnects
    \/ StartFrame(MaxTicks, StepSet)
    \/ unowned_ball_input_system(CornerSet)
    \/ FrameSteps


Spec == Init /\ [][Next]_vars

\* Motion, inbound messages and change detection: fewer frames and peers,
\* more values.
MotionNext ==
    \/ PeerConnects(MotionPeers)
    \/ PeerDisconnects
    \/ MessageArrives(MotionMsgs, MsgIdSet, MsgValSet)
    \/ StartFrame(MotionTicks, DtSet)
    \/ unowned_ball_input_system(WanderSet)
    \/ FrameSteps


MotionSpec == Init /\ [][MotionNext]_vars

\* The client alone, fed any Welcome and component messages.
ClientNext ==
    \/ ClientConnected
    \/ WelcomeArrives(ClientMsgs)
    \/ ClientMessageArrives(ClientMsgs)
    \/ ClientStartFrame(ClientTicks, StepSet)
    \/ ClientReadPositions
    \/ ClientReadTargetVelocities
    \/ read_server_message_channel_system
    \/ ClientEndPreUpdate
    \/ client_handle_network_events_system
    \/ handle_pointer_target_system(PointerSet)
    \/ client_update_velocity_system
    \/ client_update_position_system
    \/ ClientEndUpdate
    \/ broadcast_local_changes_system
    \/ ClientEndFrame

ClientSpec == Init /\ [][ClientNext]_vars

-----------------------------------------------------------------------------
(* Claims about the server *)

Pending(type, h) == \E i \in DOMAIN sEvents : sEvents[i] = [type |-> type, handle |-> h]

BoundTo(h) == {e \in DOMAIN sBalls : sBalls[e].handle = {h}}

\* C1: in every reachable server state no two live balls carry the same BallId.
C1_UniqueBallIds ==
    \A e, f \in DOMAIN sBalls : e # f => sBalls[e].id # sBalls[f].id

\* C2: every newly spawned ball gets an identity greater than every identity
\* spawned before it, owned or unowned (balls are never despawned, so the
\* balls of the world are all the balls ever spawned).
C2_SpawnIdsIncrease ==
    [][\A f \in DOMAIN sBalls' : f \notin DOMAIN sBalls =>
          \A e \in DOMAIN sBalls : sBalls'[f].id > sBalls[e].id]_vars

\* C4: at the end of every UPDATE stage in which no Connected event bound a
\* ball, at least MinUnowned balls have no NetworkHandle.
C4_SpawnFloor ==
    [][(sPc = "update_end" /\ \A i \in DOMAIN sCmds : sCmds[i].op # "insert_handle")
          => Cardinality(Unowned(sBalls')) >= MinUnowned]_vars

\* C5: distinct peers are welcomed with distinct identities, and once a frame
\* has ended every welcomed peer has a ball bound to its handle that carries
\* the identity it was welcomed with.
C5_OnePeerPerBall ==
    /\ \A w1, w2 \in sWelcomed : w1.peer # w2.peer => w1.id # w2.id
    /\ sPc = "idle" =>
          \A w \in sWelcomed : \E e \in BoundTo(w.peer) : sBalls[e].id = w.id

\* C6: once the server has handled the Disconnected event of a peer that was
\* bound to a ball, no ball carries that peer's NetworkHandle any more.
C6_DisconnectFreesBall ==
    sPc = "idle" =>
       \A g \in sGone :
          (g.bound /\ ~Pending("Disconnected", g.peer)) => BoundTo(g.peer) = {}

\* C9: a failed send never ends the server process.
C9_SendFailureNotFatal == sCrash # "Could not send welcome"

\* C7: a TargetVelocity broadcast for a ball always carries a value that
\* differs from the one last broadcast for that ball, so a run of identical
\* writes is broadcast once.
C7_BroadcastOncePerValue ==
    [][sPc = "post" =>
          \A e \in DOMAIN sBalls :
             (sBalls[e].chTv /\
              [kind |-> "TargetVelocity", id |-> sBalls[e].id, val |-> sBalls[e].tv] \in sOut')
                => sBalls[e].tv # sLast[e].tv]_vars

\* The physics step of the frame left the Position of ball e as it was, no
\* inbound message wrote it in this frame, and it has been broadcast before.
Settled(e) ==
    /\ sLast[e].pos # NoVal
    /\ sDt = 0 \/ sBalls[e].vel = Zero
    /\ \A j \in DOMAIN sRecv :
          ~(sRecv[j].kind = "Position" /\ sRecv[j].id = sBalls[e].id)

\* C8: a ball whose Position is the same after the physics step as before it
\* generates no Position broadcast in that frame.
C8_SettledBallIsSilent ==
    [][sPc = "post" =>
          \A e \in DOMAIN sBalls :
             Settled(e) =>
                [kind |-> "Position", id |-> sBalls[e].id, val |-> sBalls[e].pos] \notin sOut']_vars

\* A message of the given kind and value naming ball e was drained this frame.
Received(kind, e, val) ==
    \E j \in DOMAIN sRecv :
       sRecv[j].kind = kind /\ sRecv[j].id = sBalls[e].id /\ sRecv[j].val = val

\* C10: over PRE_UPDATE no ball is created, the server does not fail, and a
\* Position or TargetVelocity changes only to the value of a drained message
\* that names that ball's identity; a message whose identity matches no live
\* ball therefore changes nothing.
C10_UnknownIdIgnored ==
    [][/\ sPc \in {"pre_pos", "pre_tv"} => (sBalls' = sBalls /\ sCrash' = "none")
       /\ sPc = "pre_end" =>
             /\ Len(sBalls') = Len(sBalls)
             /\ sCrash' = "none"
             /\ \A e \in DOMAIN sBalls :
                   /\ sBalls'[e].id = sBalls[e].id
                   /\ sBalls'[e].vel = sBalls[e].vel
                   /\ sBalls'[e].handle = sBalls[e].handle
                   /\ sBalls'[e].pos # sBalls[e].pos =>
                         Received("Position", e, sBalls'[e].pos)
                   /\ sBalls'[e].tv # sBalls[e].tv =>
                         Received("TargetVelocity", e, sBalls'[e].tv)]_vars

\* C10 witness: PRE_UPDATE has ended after draining a message whose identity
\* matches no live ball, while balls exist.
C10_Witness ==
    /\ sPc = "events" /\ Running /\ sBalls # <<>>
    /\ \E j \in DOMAIN sRecv : sRecv[j].id \notin LiveIds(sBalls)

-----------------------------------------------------------------------------
(* Claims about the client *)

\* C3: at most one ball on the client carries the LocalPlayer marker.
C3_OneLocalPlayer == Cardinality(LocalPlayers(cBalls)) <= 1

\* C11: no ball that carries LocalPlayer once the commands of PRE_UPDATE are
\* applied had its Position or TargetVelocity changed by the component
\* messages drained in that stage, whatever the order in which the Welcome
\* and the component messages arrived.
C11_LocalPlayerKeepsComponents ==
    [][cPc = "pre_end" =>
          \A e \in DOMAIN cBalls :
             cBalls'[e].local =>
                (cBalls'[e].pos = cBalls[e].pos /\ cBalls'[e].tv = cBalls[e].tv)]_vars

\* C12: in every reachable client state at most one ball exists per BallId.
C12_OneBallPerId ==
    \A e, f \in DOMAIN cBalls : e # f => cBalls[e].id # cBalls[f].id

\* C13: every message broadcast_local_changes_system sends carries the identity
\* and the current component value of a ball that holds LocalPlayer at the time
\* of the broadcast, and none of them repeats a component message the client
\* drained from the server in the same frame.
C13_OnlyLocalNeverEchoed ==
    [][cPc = "post" =>
          \A m \in cOut' :
             /\ \E e \in LocalPlayers(cBalls) :
                   /\ cBalls[e].id = m.id
                   /\ m.val = (IF m.kind = "Position" THEN cBalls[e].pos
                                                      ELSE cBalls[e].tv)
             /\ \A i \in DOMAIN cRecv : cRecv[i] # m]_vars

\* The first half of C13 alone: only components of LocalPlayer balls are sent.
C13_OnlyLocalSent ==
    [][cPc = "post" =>
          \A m \in cOut' :
             \E e \in LocalPlayers(cBalls) :
                /\ cBalls[e].id = m.id
                /\ m.val = (IF m.kind = "Position" THEN cBalls[e].pos
                                                   ELSE cBalls[e].tv)]_vars


\* C14: in every reachable state every ball's TargetVelocity, on the server and
\* on the client, has magnitude at most 1 (x*x + y*y <= 1).
C14_TargetVelocityInUnitDisc ==
    /\ \A e \in DOMAIN sBalls :
          sBalls[e].tv[1] * sBalls[e].tv[1] + sBalls[e].tv[2] * sBalls[e].tv[2]
             <= VOne * VOne
    /\ \A e \in DOMAIN cBalls :
          cBalls[e].tv[1] * cBalls[e].tv[1] + cBalls[e].tv[2] * cBalls[e].tv[2]
             <= VOne * VOne


-----------------------------------------------------------------------------
(* The integrator alone: one ball with sampled Velocity, TargetVelocity and
   frame delta, stepped through update_velocity_system and
   update_position_system. *)

\* Largest frame delta sampled, in units of 1/DtDen s.
PhysDt == 4

PhysValSet == {-VOne, 0, VOne}

PhysicsInit ==
    /\ sPc = "velocity"
    /\ sDt \in 0..PhysDt
    /\ \E vx \in PhysValSet, vy \in PhysValSet, tx \in PhysValSet, ty \in PhysValSet :
          sBalls = <<[NewBall(1, Zero) EXCEPT !.vel = <<vx, vy>>, !.tv = <<tx, ty>>]>>
    /\ sCmds = <<>>
    /\ sConns = {}
    /\ sEvents = <<>>
    /\ sGone = {}
    /\ sInbox = <<>>
    /\ sRecv = <<>>
    /\ sWelcomed = {}
    /\ sOut = {}
    /\ sLast = <<>>
    /\ sCrash = "none"
    /\ sTicks = 1
    /\ sMsgs = 0
    /\ ClientInit

PhysicsNext ==
    \/ update_velocity_system
    \/ update_position_system

PhysicsSpec == PhysicsInit /\ [][PhysicsNext]_vars

StrictlyBetween(n, v, t) == (v < n /\ n < t) \/ (t < n /\ n < v)

\* C15: for every frame delta dt > 0 and every axis on which the
\* velocity differs from its target, the updated velocity lies strictly
\* between the old velocity and the target, or equals the target when
\* dt * speed = 1.
C15_NeverOvershoots ==
    [][(sPc = "velocity" /\ sDt > 0) =>
          \A e \in DOMAIN sBalls : \A a \in 1..2 :
             sBalls[e].vel[a] # sBalls[e].tv[a] =>
                \/ StrictlyBetween(sBalls'[e].vel[a], sBalls[e].vel[a], sBalls[e].tv[a])
                \/ (sDt * speed = DtDen /\ sBalls'[e].vel[a] = sBalls[e].tv[a])]_vars

\* What the blend does for each range of dt * speed: on every axis the updated
\* velocity lies strictly between the old velocity and the target when
\* 0 < dt * speed < 1 and the two differ, equals the target when
\* dt * speed = 1 or the velocity already equals the target, and lies beyond
\* the target (overshoots) when dt * speed > 1.
ContractsBelowOne ==
    [][sPc = "velocity" =>
          \A e \in DOMAIN sBalls : \A a \in 1..2 :
             LET v == sBalls[e].vel[a]
                 t == sBalls[e].tv[a]
                 n == sBalls'[e].vel[a]
             IN  /\ (v # t /\ 0 < sDt * speed /\ sDt * speed < DtDen)
                       => StrictlyBetween(n, v, t)
                 /\ (sDt * speed = DtDen \/ v = t) => n = t
                 /\ (v # t /\ sDt * speed > DtDen) => StrictlyBetween(t, v, n)]_vars

\* A velocity update with 0 < dt * speed < 1 on an axis that had not settled.
ContractsBelowOneSeen ==
    /\ sPc = "position" /\ 0 < sDt * speed /\ sDt * speed < DtDen
    /\ \E e \in DOMAIN sBalls : sBalls[e].vel[1] # sBalls[e].tv[1]


\* C16: while no Connected event has bound a ball, the server's world after n
\* completed frames holds exactly the unowned balls 1 .. min(n, 3), in spawn
\* order: one spawn per frame up to ids 1, 2, 3, and no spawn after that.
C16_StartupPool ==
    (sPc = "idle" /\ \A e \in DOMAIN sBalls : sBalls[e].handle = {}) =>
       [e \in DOMAIN sBalls |-> sBalls[e].id] =
          [i \in 1..(IF sTicks < MinUnowned THEN sTicks ELSE MinUnowned) |-> i]

\* A frame completed after the pool was full, with nothing bound.
C16_Witness ==
    /\ sPc = "idle" /\ sTicks > MinUnowned + 1
    /\ Len(sBalls) = MinUnowned
    /\ \A e \in DOMAIN sBalls : sBalls[e].handle = {}


-----------------------------------------------------------------------------
(* The server with inbound component messages for ball 1 carrying two
   different values, over enough frames for the ball to be bound first. *)

InboundTicks == 3
InboundPeers == 2
InboundMsgs == 2

InboundNext ==
    \/ PeerConnects(InboundPeers)
    \/ MessageArrives(InboundMsgs, {1}, TwoValSet)
    \/ StartFrame(InboundTicks, StepSet)
    \/ unowned_ball_input_system(CornerSet)
    \/ FrameSteps

InboundSpec == Init /\ [][InboundNext]_vars


\* C17: a ball that carries a NetworkHandle changes its TargetVelocity only
\* when PRE_UPDATE applies a drained (identity, TargetVelocity) message naming
\* it, and then to that message's value; the wander never touches it.
C17_OwnedBallFollowsPeer ==
    [][\A e \in DOMAIN sBalls :
          (sBalls[e].handle # {} /\ sBalls'[e].tv # sBalls[e].tv) =>
             (sPc = "pre_end" /\ Received("TargetVelocity", e, sBalls'[e].tv))]_vars

\* The wander has just run in a frame where an owned ball holds the value a
\* peer sent and an unowned ball exists.
C17_Witness ==
    /\ sPc = "update_end" /\ Unowned(sBalls) # {}
    /\ \E e \in DOMAIN sBalls :
          sBalls[e].handle # {} /\ Received("TargetVelocity", e, sBalls[e].tv)


\* The component of the given kind of a ball record.
ComponentOf(ball, kind) == IF kind = "Position" THEN ball.pos ELSE ball.tv

\* Message j is the last one drained this frame for its kind and identity.
LastDrained(j) ==
    \A k \in DOMAIN sRecv :
       (k > j) => (sRecv[k].kind # sRecv[j].kind \/ sRecv[k].id # sRecv[j].id)

\* C18: when PRE_UPDATE ends, for every drained message naming a live ball
\* that is the last one drained for its component and identity, a ball of
\* that identity holds the message's value, whoever sent it and whatever
\* the ball is bound to.
C18_LastDrainedWins ==
    [][sPc = "pre_end" =>
          \A j \in DOMAIN sRecv :
             (sRecv[j].id \in LiveIds(sBalls) /\ LastDrained(j)) =>
                \E e \in DOMAIN sBalls :
                   /\ sBalls[e].id = sRecv[j].id
                   /\ ComponentOf(sBalls'[e], sRecv[j].kind) = sRecv[j].val]_vars

\* Two messages with different values for one component of one ball were
\* drained in a frame, and the ball, not bound to the sender of the last one,
\* holds the last value.
C18_Witness ==
    /\ sPc = "events"
    /\ \E j \in DOMAIN sRecv, k \in DOMAIN sRecv, e \in DOMAIN sBalls :
          /\ j < k /\ LastDrained(k)
          /\ sRecv[j].kind = sRecv[k].kind /\ sRecv[j].id = sRecv[k].id
          /\ sRecv[j].val # sRecv[k].val
          /\ sBalls[e].id = sRecv[k].id
          /\ sBalls[e].handle # {} /\ sBalls[e].handle # {sRecv[k].peer}
          /\ ComponentOf(sBalls[e], sRecv[k].kind) = sRecv[k].val


-----------------------------------------------------------------------------
(* Server and client together: the client is the peer the server knows by
   the first connection handle, and the Welcome the server sent to that
   handle is delivered to the client after any delay. *)

SysTicks == 2
SysPeers == 2
SysClientTicks == 1

\* bevy_networking_turbulence numbers connection handles from 0.
ClientPeer == 0

\* The Welcome sent to the client's connection arrives at the client.
WelcomeDelivered ==
    /\ ClientRunning /\ cPc = "idle" /\ cConns # {} /\ cMsgs = 0
    /\ \E w \in sWelcomed :
          /\ w.peer = ClientPeer
          /\ cWelcomes' = Append(cWelcomes, w.id)
    /\ cMsgs' = cMsgs + 1
    /\ UNCHANGED <<sVars, cPc, cDt, cBalls, cCmds, cConns, cEvents, cInbox, cOut,
                   cHello, cCrash, cTicks, cRecv>>

ClientFrameSteps ==
    \/ ClientReadPositions
    \/ ClientReadTargetVelocities
    \/ read_server_message_channel_system
    \/ ClientEndPreUpdate
    \/ client_handle_network_events_system
    \/ client_update_velocity_system
    \/ client_update_position_system
    \/ ClientEndUpdate
    \/ broadcast_local_changes_system
    \/ ClientEndFrame

SystemNext ==
    \/ PeerConnects(SysPeers)
    \/ StartFrame(SysTicks, StepSet)
    \/ unowned_ball_input_system(CornerSet)
    \/ FrameSteps
    \/ ClientConnected
    \/ WelcomeDelivered
    \/ ClientStartFrame(SysClientTicks, StepSet)
    \/ handle_pointer_target_system(PointerSet)
    \/ ClientFrameSteps

SystemSpec == Init /\ [][SystemNext]_vars

\* C19: between server frames, every ball the client holds as LocalPlayer has
\* a server ball of the same identity that carries the NetworkHandle of the
\* client's connection.
C19_OwnershipAgreement ==
    (sPc = "idle" /\ Running) =>
       \A e \in LocalPlayers(cBalls) :
          \E f \in DOMAIN sBalls :
             sBalls[f].id = cBalls[e].id /\ sBalls[f].handle = {ClientPeer}


\* A frame has completed with three unowned balls in the world.
PoolFull == sPc = "idle" /\ sTicks > 0 /\ Cardinality(Unowned(sBalls)) >= MinUnowned

-----------------------------------------------------------------------------
(* Server and client together under the scheduling of the two run loops:
   each App runs its schedule frame after frame and every system of a started
   frame runs, and the reliable channel retransmits a sent Welcome until it
   is delivered. *)

ServerLoop ==
    \/ StartFrame(SysTicks, StepSet)
    \/ unowned_ball_input_system(CornerSet)
    \/ FrameSteps

ClientLoop ==
    \/ ClientStartFrame(SysClientTicks, StepSet)
    \/ handle_pointer_target_system(PointerSet)
    \/ ClientFrameSteps

FairSystemSpec ==
    /\ SystemSpec
    /\ WF_vars(ServerLoop)
    /\ WF_vars(ClientLoop)
    /\ WF_vars(ClientConnected)
    /\ WF_vars(WelcomeDelivered)

\* The identities a Welcome can carry within SysTicks server frames.
WelcomeIdSet == 1 .. (SysTicks + 1)

\* The server has sent Welcome(id) to the client's connection.
WelcomeSent(id) == [peer |-> ClientPeer, id |-> id] \in sWelcomed

\* The client holds a LocalPlayer ball of the given identity.
HoldsLocalPlayer(id) == \E e \in LocalPlayers(cBalls) : cBalls[e].id = id

\* The client no longer ticks for this Welcome: it has failed, or it ran its
\* last frame while the Welcome was still undelivered or waiting in the
\* channel.
ClientHalted(id) ==
    \/ ~ClientRunning
    \/ /\ cPc = "idle" /\ cTicks = SysClientTicks
       /\ (cMsgs = 0 \/ \E i \in DOMAIN cWelcomes : cWelcomes[i] = id)

\* C21: once the server has sent a Welcome to the client's connection, and
\* unless the client stops ticking before the Welcome reaches a frame, the
\* client eventually holds a LocalPlayer ball of the Welcome's identity; and
\* a ball that holds LocalPlayer keeps the marker and its identity in every
\* later state.
C21_HandshakeCompletes ==
    /\ \A id \in WelcomeIdSet :
          WelcomeSent(id) ~> (HoldsLocalPlayer(id) \/ ClientHalted(id))
    /\ [][\A e \in LocalPlayers(cBalls) :
             /\ e \in LocalPlayers(cBalls')
             /\ cBalls'[e].id = cBalls[e].id]_vars

\* The client, between frames, holds a LocalPlayer ball whose identity the
\* server sent to the client's connection in a Welcome.
C21_Witness ==
    /\ cPc = "idle" /\ cTicks > 0
    /\ \E e \in LocalPlayers(cBalls) : WelcomeSent(cBalls[e].id)


\* The client alone under the scheduling of its run loop, with Welcomes and
\* component messages arriving in any order.
FairClientSpec ==
    /\ ClientSpec
    /\ WF_vars(ClientStartFrame(ClientTicks, StepSet)
               \/ handle_pointer_target_system(PointerSet)
               \/ ClientFrameSteps)

\* A delivered Welcome that a frame is still to drain leads to a LocalPlayer
\* ball of its identity, whether or not the client already knew the ball.
WelcomeMarksBall ==
    \A id \in ClientIdSet :
       (/\ ClientRunning /\ cPc = "idle" /\ cTicks < ClientTicks
        /\ \E i \in DOMAIN cWelcomes : cWelcomes[i] = id)
          ~> HoldsLocalPlayer(id)

=============================================================================
